---------------------------- MODULE Spec2Model ----------------------------
(***************************************************************************)
(* Grid snapping (src/src/lib.rs): the coordinate math of Grid, and the    *)
(* three observers plus the Grid::on_changed system that keep a cell's     *)
(* stored coordinate and its Transform in step with its grid.              *)
(*                                                                         *)
(* Numbers.  An f32 is modelled by the integer it holds: every world unit  *)
(* of the model is an integer-valued f32 of magnitude below 2^31, and each *)
(* f32 operation is the exact result rounded to a 24 bit significand, ties *)
(* to even (F32).  An i32 is the integer itself.  A u32 is the pair        *)
(* [top, low] of its top bit and its low 31 bits, so that every u32 can be *)
(* written and `as i32` wraps as it does in the build.                     *)
(***************************************************************************)
EXTENDS Integers, Sequences, FiniteSets, TLC

\* i32::MAX, the largest value `as i32` and `as_ivec2` can produce
I32Max == 2147483647
I32Min == (-I32Max) - 1

Abs(n) == IF n < 0 THEN -n ELSE n
Max(a, b) == IF a >= b THEN a ELSE b
Min(a, b) == IF a <= b THEN a ELSE b

RECURSIVE Pow2(_)
Pow2(k) == IF k = 0 THEN 1 ELSE 2 * Pow2(k - 1)

\* floor(log2 n), n >= 1: the binade of n
RECURSIVE FloorLog2(_)
FloorLog2(n) == IF n < 2 THEN 0 ELSE 1 + FloorLog2(n \div 2)

(***************************************************************************)
(* u32                                                                     *)
(***************************************************************************)
U32(n) == [top |-> 0, low |-> n]                \* 0 <= n <= I32Max
U32High(n) == [top |-> 1, low |-> n]            \* the u32 2^31 + n
U32Lt(a, b) == a.top < b.top \/ (a.top = b.top /\ a.low < b.low)
\* `u as i32`: the same 32 bits read as two's complement
as_i32(u) == IF u.top = 1 THEN u.low + I32Min ELSE u.low
\* `i as u32`
as_u32(i) == IF i < 0 THEN [top |-> 1, low |-> i - I32Min] ELSE [top |-> 0, low |-> i]

\* Option<u32>
NoneU32 == [some |-> FALSE, v |-> U32(0)]
SomeU32(u) == [some |-> TRUE, v |-> u]

(***************************************************************************)
(* f32                                                                     *)
(***************************************************************************)
\* The f32 nearest to the integer n (round to nearest, ties to even): exact
\* up to 2^24, a multiple of 2^(e-23) in the binade e above it.
F32(n) ==
    LET a == Abs(n) IN
    IF a <= 16777216 THEN n
    ELSE LET u   == Pow2(FloorLog2(a) - 23)
             rem == a % u
             lo  == a - rem
             up  == (2 * rem > u) \/ (2 * rem = u /\ (lo \div u) % 2 = 1)
             m   == IF up THEN lo + u ELSE lo
         IN  IF n < 0 THEN -m ELSE m

\* (n / d).round() for f32 n >= 0, d > 0: the quotient is first rounded to
\* f32, then to the nearest integer with halves away from zero.
RoundQuot(n, d) ==
    LET qi == n \div d
        r  == n % d
    IN  IF r = 0 THEN F32(qi)
        ELSE IF qi >= 16777216
        THEN \* the f32 quotient is a multiple of u >= 2
             LET u   == Pow2(FloorLog2(qi) - 23)
                 rem == qi % u
             IN  IF 2 * rem >= u THEN (qi - rem) + u ELSE qi - rem
        ELSE IF qi >= 8388608
        THEN \* the f32 quotient is an integer, ties to even
             IF r > d - r \/ (r = d - r /\ qi % 2 = 1) THEN qi + 1 ELSE qi
        ELSE IF qi >= 4194304
        THEN \* the f32 quotient is a multiple of 1/2, ties to even
             IF r <= d \div 4 THEN qi ELSE qi + 1
        ELSE \* the f32 quotient has spacing 1/k, k >= 4: it reaches qi + 1/2
             \* from within half a spacing below
             LET k == IF qi = 0 THEN 33554432 ELSE Pow2(23 - FloorLog2(qi))
             IN  IF r >= d - r \/ (d - r) - r <= d \div k THEN qi + 1 ELSE qi

\* faulty variant: exact halves go to the even neighbour
RoundDiv_ties_to_even(local, s) ==
    IF s = 0
    THEN IF local > 0 THEN I32Max ELSE IF local < 0 THEN I32Min ELSE 0
    ELSE LET q == Abs(local) \div Abs(s)
             r == Abs(local) % Abs(s)
             m == IF 2 * r > Abs(s) \/ (2 * r = Abs(s) /\ q % 2 = 1) THEN q + 1 ELSE q
         IN  IF (local < 0) # (s < 0) THEN -m ELSE m

\* (local / s).round().as_ivec2() on one axis.  Division by zero gives an
\* infinity or NaN, which `as_ivec2` saturates (NaN to 0).
RoundDiv(local, s) ==
    IF s = 0
    THEN IF local > 0 THEN I32Max ELSE IF local < 0 THEN I32Min ELSE 0
    ELSE LET m == RoundQuot(Abs(local), Abs(s))
         IN  IF (local < 0) # (s < 0) THEN -m ELSE m

Vec2(x, y) == [x |-> x, y |-> y]
Vec3(x, y, z) == [x |-> x, y |-> y, z |-> z]

(***************************************************************************)
(* Grid                                                                    *)
(***************************************************************************)
\* faulty variant: the offset is left out
get_cell_position_no_offset(grid, coordinate) ==
    Vec3(F32(F32(coordinate.x.low) * F32(grid.cell_size.x + grid.cell_gap.x)),
         F32(F32(coordinate.y.low) * F32(grid.cell_size.y + grid.cell_gap.y)),
         0)

\* Grid::get_cell_position: (coordinate.as_vec2() * (cell_size + cell_gap)
\* + offset).extend(0.)
get_cell_position(grid, coordinate) ==
    Vec3(F32(F32(F32(coordinate.x.low) * F32(grid.cell_size.x + grid.cell_gap.x))
             + grid.offset.x),
         F32(F32(F32(coordinate.y.low) * F32(grid.cell_size.y + grid.cell_gap.y))
             + grid.offset.y),
         0)

\* faulty variant: the offset is not subtracted
int_result_keep_offset(grid, grid_translation, cell_translation) ==
    Vec2(RoundDiv(F32(cell_translation.x - grid_translation.x),
                  F32(grid.cell_gap.x + grid.cell_size.x)),
         RoundDiv(F32(cell_translation.y - grid_translation.y),
                  F32(grid.cell_gap.y + grid.cell_size.y)))

\* lines 58-63: the raw rounded coordinate
int_result(grid, grid_translation, cell_translation) ==
    Vec2(RoundDiv(F32(F32(cell_translation.x - grid_translation.x) - grid.offset.x),
                  F32(grid.cell_gap.x + grid.cell_size.x)),
         RoundDiv(F32(F32(cell_translation.y - grid_translation.y) - grid.offset.y),
                  F32(grid.cell_gap.y + grid.cell_size.y)))

\* i32::clamp(self, min, max): asserts min <= max
i32_clamp(v, lo, hi) ==
    IF lo > hi THEN [panic |-> TRUE, v |-> 0]
    ELSE [panic |-> FALSE, v |-> IF v < lo THEN lo ELSE IF v > hi THEN hi ELSE v]

\* lines 68-72 and 73-77: one axis of the CLAMP branch
clamp_axis(raw, dim) ==
    IF dim.some THEN i32_clamp(raw, 0, as_i32(dim.v))
    ELSE [panic |-> FALSE, v |-> Max(raw, 0)]

\* faulty variant: the bound itself passes (<= for <)
is_coordinate_valid_inclusive(grid, coordinate) ==
    /\ (~grid.dimensions[1].some \/ ~U32Lt(grid.dimensions[1].v, coordinate.x))
    /\ (~grid.dimensions[2].some \/ ~U32Lt(grid.dimensions[2].v, coordinate.y))

\* faulty variant: the height is never looked at
is_coordinate_valid_width_only(grid, coordinate) ==
    ~grid.dimensions[1].some \/ U32Lt(coordinate.x, grid.dimensions[1].v)

\* Grid::is_coordinate_valid
is_coordinate_valid(grid, coordinate) ==
    /\ (~grid.dimensions[1].some \/ U32Lt(coordinate.x, grid.dimensions[1].v))
    /\ (~grid.dimensions[2].some \/ U32Lt(coordinate.y, grid.dimensions[2].v))

ZeroUVec2 == Vec2(U32(0), U32(0))
SomeCoord(c) == [tag |-> "Some", v |-> c]
NoCoord == [tag |-> "None", v |-> ZeroUVec2]
Panicked == [tag |-> "Panic", v |-> ZeroUVec2]

\* Grid::get_cell_coordinate
get_cell_coordinate(grid, grid_translation, cell_translation, round_to_nearest) ==
    LET raw == int_result(grid, grid_translation, cell_translation) IN
    IF round_to_nearest
    THEN LET cx == clamp_axis(raw.x, grid.dimensions[1])
             cy == clamp_axis(raw.y, grid.dimensions[2])
         IN  IF cx.panic \/ cy.panic THEN Panicked
             ELSE SomeCoord(Vec2(as_u32(cx.v), as_u32(cy.v)))
    ELSE IF /\ ~(raw.x < 0)
            /\ ~(raw.y < 0)
            /\ is_coordinate_valid(grid, Vec2(as_u32(raw.x), as_u32(raw.y)))
         THEN SomeCoord(Vec2(as_u32(raw.x), as_u32(raw.y)))
         ELSE NoCoord

(***************************************************************************)
(* The world.  Entities carry components; a component map's domain is the  *)
(* set of entities that have the component.                                *)
(***************************************************************************)
Entities == {"G", "A", "B", "O", "S", "P", "H", "C"}
EventNames == {"UpdateCellPosition", "SnapCellToGrid", "TrySnapCellToGrid"}
\* the entities the application triggers events for: an attached cell, a cell
\* with no AttachedToGrid, a cell attached to an entity with no Grid, a grid
Triggered == {"A", "O", "S", "G"}

VARIABLES
    Grid,            \* entity -> Grid component
    Transform,       \* entity -> Transform.translation
    GridCell,        \* entity -> GridCell.coordinate
    AttachedToGrid,  \* cell -> the entity it is attached to
    AttachedCells,   \* relationship target -> its cells, in attachment order
    changed,         \* targets whose Transform changed since on_changed last ran
    queue,           \* triggered events not yet delivered to their observer
    applying,        \* the queued commands are being applied (no system runs)
    ran,             \* on_changed has run since the commands were last applied
    aborted,         \* an observer panicked
    moves,           \* the number of Transform writes made by the application
    last,            \* history: the observer run last in this pass of applying
    moved,           \* history: the outside move of a grid that was last made
    probe,           \* the inputs and results of the coordinate math alone
    tick,            \* history: what on_changed saw since the commands were applied
    snapped          \* history: the snap that last completed, nothing changed since

vars == <<Grid, Transform, GridCell, AttachedToGrid, AttachedCells, changed,
          queue, applying, ran, aborted, moves, last, moved, probe, tick,
          snapped>>

\* the number of events the systems of the application have pending at most
MaxQueue == 1
\* the number of Transform writes the systems of the application make at most
MaxMoves == 2

GridOf(size, gap, offset, dimensions) ==
    [cell_size |-> size, cell_gap |-> gap, offset |-> offset, dimensions |-> dimensions]

\* the grids an application may spawn (cell_size + cell_gap > 0 on both axes)
GridConfigs ==
    { GridOf(Vec2(32, 32), Vec2(2, 2), Vec2(0, 0), <<NoneU32, NoneU32>>),
      GridOf(Vec2(2, 3), Vec2(0, 1), Vec2(1, 0), <<SomeU32(U32(3)), SomeU32(U32(2))>>),
      GridOf(Vec2(1, 1), Vec2(0, 0), Vec2(0, 0), <<SomeU32(U32High(0)), NoneU32>>) }

\* the grid of a second, unrelated lattice
OtherGrid == GridOf(Vec2(32, 32), Vec2(2, 2), Vec2(0, 0), <<NoneU32, NoneU32>>)

GridPositions == { Vec3(0, 0, 0), Vec3(10, -4, 7), Vec3(16777218, 0, 1) }
CellPositions == { Vec3(70, 0, 5), Vec3(4, 9, 5), Vec3(-20, 2, 0) }

NoEvent == [event |-> "none", entity |-> "G", by |-> "none", outcome |-> "none",
            translation |-> Vec3(0, 0, 0), coordinate |-> ZeroUVec2, again |-> FALSE]
NoMove == [grid |-> "none", before |-> <<>>]
NoTick == [seen |-> {}, at |-> <<>>]
NoSnap == [entity |-> "none", name |-> "none"]
NoProbe == [phase |-> "off", from |-> "off", grid |-> <<>>,
            grid_translation |-> Vec3(0, 0, 0), cell_translation |-> Vec3(0, 0, 0),
            coordinate |-> ZeroUVec2, round_to_nearest |-> FALSE, derived |-> NoCoord]

Event(name, entity, by) == [event |-> name, entity |-> entity, by |-> by]

\* Changed<Transform> is read only through Query<&AttachedCells, ..>
MarkChanged(e) == IF e \in DOMAIN AttachedCells THEN changed \cup {e} ELSE changed

Init ==
    /\ Grid \in { [e \in {"G", "H"} |-> IF e = "G" THEN g ELSE OtherGrid] :
                   g \in GridConfigs }
    /\ Transform = [e \in Entities |->
                       CASE e = "G" -> Vec3(0, 0, 0)
                         [] e = "A" -> Vec3(70, 0, 5)
                         [] e = "B" -> Vec3(4, 9, 5)
                         [] e = "O" -> Vec3(7, 7, 1)
                         [] e = "S" -> Vec3(9, 3, 2)
                         [] e = "H" -> Vec3(100, 50, 2)
                         [] e = "C" -> Vec3(3, 3, 9)
                         [] OTHER   -> Vec3(-5, 6, 3)]
    /\ GridCell = [e \in {"A", "B", "O", "S", "C"} |->
                     CASE e = "B" -> Vec2(U32(1), U32(0))
                       [] e = "C" -> Vec2(U32(1), U32(1))
                       [] OTHER   -> Vec2(U32(0), U32(0))]
    /\ AttachedToGrid = [e \in {"A", "B", "S", "C"} |->
                           CASE e = "S" -> "P" [] e = "C" -> "H" [] OTHER -> "G"]
    /\ AttachedCells = [e \in {"G", "P", "H"} |->
                          CASE e = "G" -> <<"A", "B">>
                            [] e = "P" -> <<"S">>
                            [] OTHER   -> <<"C">>]
    /\ changed = {"G", "P", "H"}
    /\ queue = <<>>
    /\ applying = FALSE
    /\ ran = FALSE
    /\ aborted = FALSE
    /\ moves = 0
    /\ last = NoEvent
    /\ moved = NoMove
    /\ probe = NoProbe
    /\ tick = NoTick
    /\ snapped = NoSnap

(***************************************************************************)
(* Observers                                                               *)
(***************************************************************************)
\* grid_cells_q.get_mut(event.entity) is Ok
CellResolves(entity) ==
    entity \in DOMAIN Transform /\ entity \in DOMAIN GridCell
        /\ entity \in DOMAIN AttachedToGrid

\* grids_q.get(grid.0) is Ok: Query<(&Grid, &Transform), Without<GridCell>>
GridResolves(grid) ==
    grid \in DOMAIN Grid /\ grid \in DOMAIN Transform /\ grid \notin DOMAIN GridCell

Resolves(entity) == CellResolves(entity) /\ GridResolves(AttachedToGrid[entity])

\* faulty variant: with_z is left out, the cell takes the grid's z
synced_translation_grid_z(grid_translation, cell_translation, cell_position) ==
    Vec3(F32(grid_translation.x + cell_position.x),
         F32(grid_translation.y + cell_position.y),
         F32(grid_translation.z + cell_position.z))

\* faulty variant: the grid's z is added to the cell's z instead of replaced by it
synced_translation_add_z(grid_translation, cell_translation, cell_position) ==
    Vec3(F32(grid_translation.x + cell_position.x),
         F32(grid_translation.y + cell_position.y),
         F32(F32(grid_translation.z + cell_translation.z) + cell_position.z))

\* lines 193-196: grid_transform.translation.with_z(cell z) + cell_position
synced_translation(grid_translation, cell_translation, cell_position) ==
    Vec3(F32(grid_translation.x + cell_position.x),
         F32(grid_translation.y + cell_position.y),
         F32(cell_translation.z + cell_position.z))

\* what an observer was given and found: the event, the entity's translation
\* and coordinate as it ran, and whether the observer run just before it was
\* the same observer for the same entity
Seen(ev, outcome) ==
    [event |-> ev.event, entity |-> ev.entity, by |-> ev.by, outcome |-> outcome,
     translation |-> Transform[ev.entity],
     coordinate |-> IF ev.entity \in DOMAIN GridCell THEN GridCell[ev.entity]
                    ELSE ZeroUVec2,
     again |-> last.event = ev.event /\ last.entity = ev.entity]

\* the completed snap is forgotten once a Transform or a coordinate changes
StillSnapped ==
    IF Transform' = Transform /\ GridCell' = GridCell THEN snapped ELSE NoSnap

Delivering(name) ==
    /\ applying /\ ~aborted /\ queue # <<>>
    /\ Head(queue).event = name

\* faulty variant: a cell whose grid is not found is placed as if on a default grid at
\* the origin
UpdateCellPosition_observer_default_grid ==
    /\ Delivering("UpdateCellPosition")
    /\ LET ev == Head(queue)
           entity == ev.entity
       IN  /\ queue' = Tail(queue)
           /\ IF ~CellResolves(entity)
              THEN /\ last' = Seen(ev, "unresolved")
                   /\ UNCHANGED <<Transform, changed>>
              ELSE LET grid == AttachedToGrid[entity]
                       found == GridResolves(grid)
                       cell_position ==
                           IF found THEN get_cell_position(Grid[grid], GridCell[entity])
                           ELSE Vec3(0, 0, 0)
                       grid_translation ==
                           IF found THEN Transform[grid] ELSE Vec3(0, 0, 0)
                   IN  /\ Transform' = [Transform EXCEPT ![entity] =
                              synced_translation(grid_translation, Transform[entity],
                                                 cell_position)]
                       /\ changed' = MarkChanged(entity)
                       /\ last' = Seen(ev, IF found THEN "written" ELSE "unresolved")
    /\ UNCHANGED <<Grid, GridCell, AttachedToGrid, AttachedCells, applying, ran,
                   aborted, moves, moved, probe, tick>>
    /\ snapped' = IF Head(queue).by \in {"SnapCellToGrid", "TrySnapCellToGrid"}
                      /\ Resolves(Head(queue).entity)
                   THEN [entity |-> Head(queue).entity, name |-> Head(queue).by]
                   ELSE StillSnapped

\* faulty variant: the grid's translation is taken as Grid::on_changed saw it,
\* not as it is when the observer runs
UpdateCellPosition_observer_stale_grid ==
    /\ Delivering("UpdateCellPosition")
    /\ LET ev == Head(queue)
           entity == ev.entity
       IN  /\ queue' = Tail(queue)
           /\ IF ~Resolves(entity)
              THEN /\ last' = Seen(ev, "unresolved")
                   /\ UNCHANGED <<Transform, changed>>
              ELSE LET grid == AttachedToGrid[entity]
                       cell_position == get_cell_position(Grid[grid], GridCell[entity])
                       grid_translation ==
                           IF grid \in tick.seen THEN tick.at[grid] ELSE Transform[grid]
                   IN  /\ Transform' = [Transform EXCEPT ![entity] =
                              synced_translation(grid_translation, Transform[entity],
                                                 cell_position)]
                       /\ changed' = MarkChanged(entity)
                       /\ last' = Seen(ev, "written")
    /\ UNCHANGED <<Grid, GridCell, AttachedToGrid, AttachedCells, applying, ran,
                   aborted, moves, moved, probe, tick>>
    /\ snapped' = IF Head(queue).by \in {"SnapCellToGrid", "TrySnapCellToGrid"}
                      /\ Resolves(Head(queue).entity)
                   THEN [entity |-> Head(queue).entity, name |-> Head(queue).by]
                   ELSE StillSnapped

\* UpdateCellPosition::observer
UpdateCellPosition_observer ==
    /\ Delivering("UpdateCellPosition")
    /\ LET ev == Head(queue)
           entity == ev.entity
       IN  /\ queue' = Tail(queue)
           /\ IF ~Resolves(entity)
              THEN /\ last' = Seen(ev, "unresolved")
                   /\ UNCHANGED <<Transform, changed>>
              ELSE LET grid == AttachedToGrid[entity]
                       cell_position == get_cell_position(Grid[grid], GridCell[entity])
                   IN  /\ Transform' = [Transform EXCEPT ![entity] =
                              synced_translation(Transform[grid], Transform[entity],
                                                 cell_position)]
                       /\ changed' = MarkChanged(entity)
                       /\ last' = Seen(ev, "written")
    /\ UNCHANGED <<Grid, GridCell, AttachedToGrid, AttachedCells, applying, ran,
                   aborted, moves, moved, probe, tick>>
    /\ snapped' = IF Head(queue).by \in {"SnapCellToGrid", "TrySnapCellToGrid"}
                      /\ Resolves(Head(queue).entity)
                   THEN [entity |-> Head(queue).entity, name |-> Head(queue).by]
                   ELSE StillSnapped

\* faulty variant: the snap also places the cell itself
snap_observer_moves_cell(name, round_to_nearest) ==
    /\ Delivering(name)
    /\ LET ev == Head(queue)
           entity == ev.entity
       IN  IF ~Resolves(entity)
           THEN /\ last' = Seen(ev, "unresolved")
                /\ queue' = Tail(queue)
                /\ UNCHANGED <<GridCell, Transform, aborted>>
           ELSE LET grid == AttachedToGrid[entity]
                    got == get_cell_coordinate(Grid[grid], Transform[grid],
                                               Transform[entity], round_to_nearest)
                IN  CASE got.tag = "Panic" ->
                           /\ aborted' = TRUE
                           /\ last' = Seen(ev, "panic")
                           /\ UNCHANGED <<GridCell, Transform, queue>>
                      [] got.tag = "None" ->
                           /\ last' = Seen(ev, "rejected")
                           /\ queue' = Tail(queue)
                           /\ UNCHANGED <<GridCell, Transform, aborted>>
                      [] OTHER ->
                           /\ GridCell' = [GridCell EXCEPT ![entity] = got.v]
                           /\ Transform' = [Transform EXCEPT ![entity] =
                                  synced_translation(Transform[grid], Transform[entity],
                                      get_cell_position(Grid[grid], got.v))]
                           /\ queue' = <<Event("UpdateCellPosition", entity, name)>>
                                           \o Tail(queue)
                           /\ last' = Seen(ev, "stored")
                           /\ UNCHANGED aborted
    /\ UNCHANGED <<Grid, AttachedToGrid, AttachedCells, changed, applying,
                   ran, moves, moved, probe, tick>>
    /\ snapped' = StillSnapped

\* the body the two snap observers share, but for the flag they pass
snap_observer(name, round_to_nearest) ==
    /\ Delivering(name)
    /\ LET ev == Head(queue)
           entity == ev.entity
       IN  IF ~Resolves(entity)
           THEN /\ last' = Seen(ev, "unresolved")
                /\ queue' = Tail(queue)
                /\ UNCHANGED <<GridCell, aborted>>
           ELSE LET grid == AttachedToGrid[entity]
                    got == get_cell_coordinate(Grid[grid], Transform[grid],
                                               Transform[entity], round_to_nearest)
                IN  CASE got.tag = "Panic" ->
                           /\ aborted' = TRUE
                           /\ last' = Seen(ev, "panic")
                           /\ UNCHANGED <<GridCell, queue>>
                      [] got.tag = "None" ->
                           /\ last' = Seen(ev, "rejected")
                           /\ queue' = Tail(queue)
                           /\ UNCHANGED <<GridCell, aborted>>
                      [] OTHER ->
                           /\ GridCell' = [GridCell EXCEPT ![entity] = got.v]
                           /\ queue' = <<Event("UpdateCellPosition", entity, name)>>
                                           \o Tail(queue)
                           /\ last' = Seen(ev, "stored")
                           /\ UNCHANGED aborted
    /\ UNCHANGED <<Grid, Transform, AttachedToGrid, AttachedCells, changed, applying,
                   ran, moves, moved, probe, tick>>
    /\ snapped' = StillSnapped

\* SnapCellToGrid::observer
SnapCellToGrid_observer == snap_observer("SnapCellToGrid", TRUE)

\* TrySnapCellToGrid::observer
TrySnapCellToGrid_observer == snap_observer("TrySnapCellToGrid", FALSE)

(***************************************************************************)
(* Systems and the schedule                                                *)
(***************************************************************************)
RangeOf(s) == { s[i] : i \in 1..Len(s) }

RECURSIVE Flatten(_)
Flatten(ss) == IF ss = <<>> THEN <<>> ELSE Head(ss) \o Flatten(Tail(ss))

\* the targets Query<&AttachedCells, Changed<Transform>> yields
ChangedTargets == SelectSeq(<<"G", "P", "H">>, LAMBDA e : e \in changed /\ e \in DOMAIN AttachedCells)

\* faulty variant: only the first attached cell of a changed target is synced
on_changed_first_cell_only ==
    /\ ~applying /\ ~aborted /\ ~ran
    /\ queue' = queue \o Flatten([i \in 1..Len(ChangedTargets) |->
                    [j \in 1..Min(1, Len(AttachedCells[ChangedTargets[i]])) |->
                        Event("UpdateCellPosition",
                              AttachedCells[ChangedTargets[i]][j], "on_changed")]])
    /\ changed' = {}
    /\ ran' = TRUE
    /\ tick' = [seen |-> RangeOf(ChangedTargets),
                at |-> [g \in RangeOf(ChangedTargets) |-> Transform[g]]]
    /\ UNCHANGED <<Grid, Transform, GridCell, AttachedToGrid, AttachedCells, applying,
                   aborted, moves, last, moved, probe, snapped>>

\* faulty variant: the cells of every target are synced, changed or not
on_changed_all_targets ==
    /\ ~applying /\ ~aborted /\ ~ran
    /\ queue' = queue \o Flatten([i \in 1..3 |->
                    [j \in 1..Len(AttachedCells[<<"G", "P", "H">>[i]]) |->
                        Event("UpdateCellPosition",
                              AttachedCells[<<"G", "P", "H">>[i]][j], "on_changed")]])
    /\ changed' = {}
    /\ ran' = TRUE
    /\ tick' = [seen |-> RangeOf(ChangedTargets),
                at |-> [g \in RangeOf(ChangedTargets) |-> Transform[g]]]
    /\ UNCHANGED <<Grid, Transform, GridCell, AttachedToGrid, AttachedCells, applying,
                   aborted, moves, last, moved, probe, snapped>>

\* Grid::on_changed
on_changed ==
    /\ ~applying /\ ~aborted /\ ~ran
    /\ queue' = queue \o Flatten([i \in 1..Len(ChangedTargets) |->
                    [j \in 1..Len(AttachedCells[ChangedTargets[i]]) |->
                        Event("UpdateCellPosition",
                              AttachedCells[ChangedTargets[i]][j], "on_changed")]])
    /\ changed' = {}
    /\ ran' = TRUE
    /\ tick' = [seen |-> RangeOf(ChangedTargets),
                at |-> [g \in RangeOf(ChangedTargets) |-> Transform[g]]]
    /\ UNCHANGED <<Grid, Transform, GridCell, AttachedToGrid, AttachedCells, applying,
                   aborted, moves, last, moved, probe, snapped>>

\* the commands queued by the systems start being applied
StartApply ==
    /\ ~applying /\ ~aborted
    /\ applying' = TRUE
    /\ UNCHANGED <<Grid, Transform, GridCell, AttachedToGrid, AttachedCells, changed,
                   queue, ran, aborted, moves, last, moved, probe, tick, snapped>>

\* every command, and every command an observer queued, has been applied
EndApply ==
    /\ applying /\ ~aborted /\ queue = <<>>
    /\ applying' = FALSE
    /\ ran' = FALSE
    /\ last' = NoEvent
    /\ tick' = NoTick
    /\ UNCHANGED <<Grid, Transform, GridCell, AttachedToGrid, AttachedCells, changed,
                   queue, aborted, moves, moved, probe, snapped>>

(***************************************************************************)
(* The application around the plugin                                       *)
(***************************************************************************)
InSync(cell) ==
    Resolves(cell) /\
    LET grid == AttachedToGrid[cell] IN
    Transform[cell] = synced_translation(Transform[grid], Transform[cell],
                          get_cell_position(Grid[grid], GridCell[cell]))

\* a system writes a grid's Transform
MoveGrid(grid, p) ==
    /\ ~applying /\ ~aborted /\ moves < MaxMoves
    /\ grid \in DOMAIN Grid /\ Transform[grid] # p
    /\ Transform' = [Transform EXCEPT ![grid] = p]
    /\ changed' = MarkChanged(grid)
    /\ moves' = moves + 1
    /\ moved' = IF /\ queue = <<>>
                   /\ changed = {}
                   /\ \A c \in RangeOf(AttachedCells[grid]) : InSync(c)
                THEN [grid |-> grid, before |-> <<Transform, GridCell>>]
                ELSE NoMove
    /\ UNCHANGED <<Grid, GridCell, AttachedToGrid, AttachedCells, queue, applying, ran,
                   aborted, last, probe, tick>>
    /\ snapped' = NoSnap

\* a system writes a cell's Transform (the cell is dragged)
MoveCell(cell, p) ==
    /\ ~applying /\ ~aborted /\ moves < MaxMoves
    /\ cell \in DOMAIN GridCell /\ Transform[cell] # p
    /\ Transform' = [Transform EXCEPT ![cell] = p]
    /\ changed' = MarkChanged(cell)
    /\ moves' = moves + 1
    /\ moved' = NoMove
    /\ UNCHANGED <<Grid, GridCell, AttachedToGrid, AttachedCells, queue, applying, ran,
                   aborted, last, probe, tick>>
    /\ snapped' = NoSnap

\* a system calls commands.trigger(..) for an entity
Trigger(name, entity) ==
    /\ ~applying /\ ~aborted /\ Len(queue) < MaxQueue
    /\ queue' = Append(queue, Event(name, entity, "user"))
    /\ moved' = NoMove
    /\ UNCHANGED <<Grid, Transform, GridCell, AttachedToGrid, AttachedCells, changed,
                   applying, ran, aborted, moves, last, probe, tick, snapped>>

Next ==
    \/ UpdateCellPosition_observer
    \/ SnapCellToGrid_observer
    \/ TrySnapCellToGrid_observer
    \/ on_changed
    \/ StartApply
    \/ EndApply
    \/ \E p \in GridPositions : MoveGrid("G", p)
    \/ \E p \in CellPositions : MoveCell("A", p)
    \/ \E n \in EventNames, e \in Triggered : Trigger(n, e)

Spec == Init /\ [][Next]_vars
(***************************************************************************)
(* The coordinate math alone: Grid::get_cell_position and                  *)
(* Grid::get_cell_coordinate applied to drawn grids and translations, as   *)
(* the observers apply them.                                               *)
(***************************************************************************)
\* per-axis bounds: none, 0, 3, i32::MAX, 2^31, u32::MAX
ProbeDimensions ==
    { NoneU32, SomeU32(U32(0)), SomeU32(U32(3)), SomeU32(U32(I32Max)),
      SomeU32(U32High(0)), SomeU32(U32High(I32Max)) }

\* cell_size, cell_gap: sums 34, 2 and 4, 1, 0, and a negative one
ProbeSizes ==
    { <<Vec2(32, 32), Vec2(2, 2)>>, <<Vec2(2, 3), Vec2(0, 1)>>, <<Vec2(1, 1), Vec2(0, 0)>>,
      <<Vec2(1, 2), Vec2(-1, -2)>>, <<Vec2(1, 1), Vec2(-4, 1)>> }

ProbeGrids ==
    { GridOf(sz[1], sz[2], off, <<dx, dy>>) :
        sz \in ProbeSizes, off \in {Vec2(0, 0), Vec2(1, -3)},
        dx \in ProbeDimensions, dy \in ProbeDimensions }

ProbeGridPositions == { Vec3(0, 0, 0), Vec3(10, -4, 7), Vec3(33554432, 0, 1) }
ProbeCellPositions ==
    { Vec3(70, 0, 5), Vec3(4, 9, 5), Vec3(-20, 2, 0), Vec3(1, -2, 0), Vec3(-1, 6, 3),
      Vec3(70, 34, 1), Vec3(102, 34, 0), Vec3(33554500, 17, 2),
      Vec3(142606352, 0, 0) }
ProbeCoordinates ==
    { Vec2(U32(0), U32(0)), Vec2(U32(2), U32(1)), Vec2(U32(1), U32(2)),
      Vec2(U32(16777217), U32(0)) }

MathInit ==
    /\ Grid = [e \in {} |-> 0]
    /\ Transform = [e \in {} |-> 0]
    /\ GridCell = [e \in {} |-> 0]
    /\ AttachedToGrid = [e \in {} |-> 0]
    /\ AttachedCells = [e \in {} |-> 0]
    /\ changed = {}
    /\ queue = <<>>
    /\ applying = FALSE
    /\ ran = FALSE
    /\ aborted = FALSE
    /\ moves = 0
    /\ last = NoEvent
    /\ moved = NoMove
    /\ tick = NoTick
    /\ snapped = NoSnap
    /\ probe \in { [phase |-> "input", from |-> "input", grid |-> g,
                    grid_translation |-> gt, cell_translation |-> ct,
                    coordinate |-> c, round_to_nearest |-> FALSE, derived |-> NoCoord] :
                   g \in ProbeGrids, gt \in ProbeGridPositions,
                   ct \in ProbeCellPositions, c \in ProbeCoordinates }

\* the cell is put where UpdateCellPosition::observer puts it (lines 192-196)
Place ==
    /\ probe.phase = "input"
    /\ probe' = [probe EXCEPT
                   !.phase = "placed",
                   !.cell_translation =
                       synced_translation(probe.grid_translation, probe.cell_translation,
                           get_cell_position(probe.grid, probe.coordinate))]
    /\ UNCHANGED <<Grid, Transform, GridCell, AttachedToGrid, AttachedCells, changed,
                   queue, applying, ran, aborted, moves, last, moved,
                   tick, snapped>>

\* grid.get_cell_coordinate(grid_transform, cell_transform, round_to_nearest)
\* (lines 218 and 249)
Derive(round_to_nearest) ==
    /\ probe.phase \in {"input", "placed"}
    /\ probe' = [probe EXCEPT
                   !.phase = "derived",
                   !.from = probe.phase,
                   !.round_to_nearest = round_to_nearest,
                   !.derived = get_cell_coordinate(probe.grid, probe.grid_translation,
                                   probe.cell_translation, round_to_nearest)]
    /\ UNCHANGED <<Grid, Transform, GridCell, AttachedToGrid, AttachedCells, changed,
                   queue, applying, ran, aborted, moves, last, moved,
                   tick, snapped>>

MathNext ==
    \/ Place
    \/ \E round_to_nearest \in BOOLEAN : Derive(round_to_nearest)

MathSpec == MathInit /\ [][MathNext]_vars

\* the raw rounded coordinate of the probe's inputs
ProbeRaw == int_result(probe.grid, probe.grid_translation, probe.cell_translation)
Derived(round_to_nearest) ==
    probe.phase = "derived" /\ probe.round_to_nearest = round_to_nearest

(***************************************************************************)
(* Claims about the coordinate math (checked under MathSpec)               *)
(***************************************************************************)
\* the value of a u32 bound compared with an i32: n <= raw, raw below 2^31
BoundAtMost(dim, raw) == dim.v.top = 0 /\ dim.v.low <= raw

\* a stored coordinate lies in [0, bound] on an axis with a bound
WithinBound(dim, u) == ~dim.some \/ ~U32Lt(dim.v, u)

PositiveSpacing(grid) ==
    /\ F32(grid.cell_size.x + grid.cell_gap.x) > 0
    /\ F32(grid.cell_size.y + grid.cell_gap.y) > 0

\* C1 (as claimed): with cell_size + cell_gap > 0 on both axes and bounded
\* dimensions (w, h), a cell placed at grid position + cell_offset(grid, c) for a
\* coordinate c with c.x < w and c.y < h derives, under CLAMP, exactly c.
C1_RoundTripClamp ==
    ( /\ Derived(TRUE) /\ probe.from = "placed"
      /\ PositiveSpacing(probe.grid)
      /\ probe.grid.dimensions[1].some /\ probe.grid.dimensions[2].some
      /\ U32Lt(probe.coordinate.x, probe.grid.dimensions[1].v)
      /\ U32Lt(probe.coordinate.y, probe.grid.dimensions[2].v) )
    => probe.derived = SomeCoord(probe.coordinate)

\* C4: under REJECT no coordinate is returned exactly when a raw axis is negative
\* or at or above its declared bound, and otherwise the raw coordinate is returned
\* unchanged.
C4_RejectResult ==
    Derived(FALSE) =>
        LET raw == ProbeRaw
            dims == probe.grid.dimensions
            out == \/ raw.x < 0 \/ raw.y < 0
                   \/ (dims[1].some /\ BoundAtMost(dims[1], raw.x))
                   \/ (dims[2].some /\ BoundAtMost(dims[2], raw.y))
        IN  IF out THEN probe.derived = NoCoord
            ELSE probe.derived = SomeCoord(Vec2(U32(raw.x), U32(raw.y)))

\* C4 witness: with dimensions (Some(3), Some(3)) raw (3, 1) has been rejected
C4_Witness ==
    /\ Derived(FALSE)
    /\ probe.grid.dimensions = <<SomeU32(U32(3)), SomeU32(U32(3))>>
    /\ ProbeRaw = Vec2(3, 1)
    /\ probe.derived = NoCoord

\* min(max(raw, 0), n) for a bound n, max(raw, 0) without one
Saturated(raw, dim) ==
    IF dim.some /\ BoundAtMost(dim, Max(raw, 0)) THEN dim.v.low ELSE Max(raw, 0)

\* C5 (as claimed): under CLAMP each axis is min(max(raw, 0), n) with a bound n
\* and max(raw, 0) without one, whatever the other axis holds.
C5_ClampResult ==
    Derived(TRUE) =>
        probe.derived =
            SomeCoord(Vec2(U32(Saturated(ProbeRaw.x, probe.grid.dimensions[1])),
                           U32(Saturated(ProbeRaw.y, probe.grid.dimensions[2]))))

\* C10 (as claimed): under CLAMP, for every bound a u32 can hold and every raw
\* value an i32 can hold, a coordinate within [0, bound] on each bounded axis is
\* returned and nothing aborts.
C10_ClampNeverFails ==
    Derived(TRUE) =>
        /\ probe.derived.tag = "Some"
        /\ WithinBound(probe.grid.dimensions[1], probe.derived.v.x)
        /\ WithinBound(probe.grid.dimensions[2], probe.derived.v.y)

(***************************************************************************)
(* Claims about the observers and the system (checked under Spec)          *)
(***************************************************************************)
Snaps == {"SnapCellToGrid", "TrySnapCellToGrid"}

\* C2 (as claimed): the stored coordinate of every cell attached to a grid is a
\* valid coordinate of that grid (the test REJECT uses), whatever snaps have run.
C2_StoredCoordinateValid ==
    \A c \in DOMAIN GridCell :
        Resolves(c) => is_coordinate_valid(Grid[AttachedToGrid[c]], GridCell[c])

\* the grid was moved while its cells were in sync with it, and the grid-moved
\* handler and the position syncs it issued have all run, nothing else since
GridMoveDone ==
    moved.grid # "none" /\ ~applying /\ ~aborted /\ queue = <<>> /\ changed = {}

Before(e) == moved.before[1][e]

\* C3 (as claimed): after a move of an in-sync grid from P to P' and the syncs
\* the handler issues, every attached cell has shifted by P' - P on x, y and z.
C3_ShiftAllComponents ==
    GridMoveDone =>
        \A c \in RangeOf(AttachedCells[moved.grid]) :
            /\ Transform[c].x - Before(c).x = Transform[moved.grid].x - Before(moved.grid).x
            /\ Transform[c].y - Before(c).y = Transform[moved.grid].y - Before(moved.grid).y
            /\ Transform[c].z - Before(c).z = Transform[moved.grid].z - Before(moved.grid).z

\* a + b is an f32: the addition does not round
ExactSum(a, b) == F32(a + b) = a + b

\* C3 (amended): after a move of an in-sync grid from P to P' and the syncs the
\* handler issues, every attached cell keeps its z, has on x and y the f32 sum of
\* P' and its cell offset, and so has shifted by exactly P' - P on each of x and y
\* on which grid position + cell offset is exact in f32 at P and at P'.
C3_ShiftXYKeepZ ==
    GridMoveDone =>
        \A c \in RangeOf(AttachedCells[moved.grid]) :
            LET g == moved.grid
                off == get_cell_position(Grid[g], GridCell[c])
            IN  /\ Transform[c].z = Before(c).z
                /\ Transform[c].x = F32(Transform[g].x + off.x)
                /\ Transform[c].y = F32(Transform[g].y + off.y)
                /\ (ExactSum(Before(g).x, off.x) /\ ExactSum(Transform[g].x, off.x))
                      => Transform[c].x - Before(c).x = Transform[g].x - Before(g).x
                /\ (ExactSum(Before(g).y, off.y) /\ ExactSum(Transform[g].y, off.y))
                      => Transform[c].y - Before(c).y = Transform[g].y - Before(g).y

\* C3 witness: a grid with two cells has been moved on x, y and z, its cells
\* have been synced, and the sums are exact
C3_Witness ==
    /\ GridMoveDone
    /\ Len(AttachedCells[moved.grid]) = 2
    /\ Transform[moved.grid].x # Before(moved.grid).x
    /\ Transform[moved.grid].y # Before(moved.grid).y
    /\ Transform[moved.grid].z # Before(moved.grid).z
    /\ \A c \in RangeOf(AttachedCells[moved.grid]) :
          /\ Transform[c] # Before(c)
          /\ ExactSum(Transform[moved.grid].x,
                      get_cell_position(Grid[moved.grid], GridCell[c]).x)

\* the raw coordinate of a cell lies outside its grid: negative, or at or above
\* a declared bound
RawOutside(cell) ==
    LET g == AttachedToGrid[cell]
        raw == int_result(Grid[g], Transform[g], Transform[cell])
    IN  \/ raw.x < 0 \/ raw.y < 0
        \/ (Grid[g].dimensions[1].some /\ BoundAtMost(Grid[g].dimensions[1], raw.x))
        \/ (Grid[g].dimensions[2].some /\ BoundAtMost(Grid[g].dimensions[2], raw.y))

\* C6: when TrySnapCellToGrid runs for a cell whose position lies outside the
\* grid, no coordinate and no translation changes and no event is issued.
C6_RejectedSnapChangesNothing ==
    [][ ( /\ Delivering("TrySnapCellToGrid")
          /\ Resolves(Head(queue).entity)
          /\ RawOutside(Head(queue).entity) )
        => ( /\ GridCell' = GridCell
             /\ Transform' = Transform
             /\ queue' = Tail(queue)
             /\ ~aborted' ) ]_vars

\* C6 witness: TrySnapCellToGrid has run for cell A, which lies outside its grid
C6_Witness ==
    /\ last.event = "TrySnapCellToGrid" /\ last.entity = "A"
    /\ last.outcome = "rejected"
    /\ RawOutside("A")

\* the entity is no cell, a cell with no attachment, or a cell attached to an
\* entity that is no grid
Unresolvable(entity) ==
    \/ entity \notin DOMAIN GridCell
    \/ entity \notin DOMAIN AttachedToGrid
    \/ AttachedToGrid[entity] \notin DOMAIN Grid

\* C7: an event of any of the three kinds for an unresolvable entity changes no
\* coordinate and no translation, issues no event and does not abort.
C7_UnresolvableIsNoOp ==
    [][ ( /\ applying /\ ~aborted /\ queue # <<>>
          /\ Unresolvable(Head(queue).entity) )
        => ( /\ GridCell' = GridCell
             /\ Transform' = Transform
             /\ queue' = Tail(queue)
             /\ ~aborted' ) ]_vars

\* C7 witness: an observer has run for the cell attached to an entity that is no
\* grid
C7_Witness ==
    /\ last.event \in EventNames /\ last.entity = "S"
    /\ Unresolvable("S")
    /\ last.outcome = "unresolved"

\* C8 (as claimed): SnapCellToGrid for a cell with a grid always stores a
\* coordinate and issues the position sync, and when the position sync a snap
\* issued runs, the stored coordinate is the one derived from where the cell was,
\* the cell's x and y become grid x, y + coordinate * (cell_size + cell_gap) +
\* offset, and its z is what it was before the snap.
C8_SnapAlwaysEndsConsistent ==
    [][ /\ ( /\ Delivering("SnapCellToGrid")
             /\ Resolves(Head(queue).entity) )
           => ( /\ ~aborted'
                /\ queue' # <<>>
                /\ Head(queue').event = "UpdateCellPosition"
                /\ Head(queue').entity = Head(queue).entity )
        /\ ( /\ Delivering("UpdateCellPosition")
             /\ Head(queue).by \in Snaps )
           => LET cell == Head(queue).entity
                  g == AttachedToGrid[cell]
                  grid == Grid[g]
                  derived == get_cell_coordinate(grid, Transform[g], last.translation,
                                                 Head(queue).by = "SnapCellToGrid")
                  c == GridCell'[cell]
              IN  /\ derived.tag = "Some" /\ c = derived.v
                  /\ Transform'[cell].x =
                        Transform[g].x
                        + c.x.low * (grid.cell_size.x + grid.cell_gap.x) + grid.offset.x
                  /\ Transform'[cell].y =
                        Transform[g].y
                        + c.y.low * (grid.cell_size.y + grid.cell_gap.y) + grid.offset.y
                  /\ Transform'[cell].z = last.translation.z ]_vars

\* C8 (what holds): when the position sync a snap issued runs, the stored
\* coordinate is the one derived from where the cell was, the cell's x and y
\* become grid x, y + coordinate * (cell_size + cell_gap) + offset in f32, as the
\* code adds them, and its z is what it was before the snap.
C8_SnapEndsConsistent ==
    [][ ( /\ Delivering("UpdateCellPosition")
          /\ Head(queue).by \in Snaps )
        => LET cell == Head(queue).entity
               g == AttachedToGrid[cell]
               grid == Grid[g]
               derived == get_cell_coordinate(grid, Transform[g], last.translation,
                                              Head(queue).by = "SnapCellToGrid")
               c == GridCell'[cell]
           IN  /\ last.event = Head(queue).by /\ last.entity = cell
               /\ derived.tag = "Some" /\ c = derived.v
               /\ Transform'[cell].x =
                     F32(Transform[g].x
                         + F32(F32(F32(c.x.low) * F32(grid.cell_size.x + grid.cell_gap.x))
                               + grid.offset.x))
               /\ Transform'[cell].y =
                     F32(Transform[g].y
                         + F32(F32(F32(c.y.low) * F32(grid.cell_size.y + grid.cell_gap.y))
                               + grid.offset.y))
               /\ Transform'[cell].z = last.translation.z ]_vars

\* C8 witness: size 32, gap 2, grid at the origin; the cell was at (70, 0, 5),
\* SnapCellToGrid and its sync have run, and it is at (68, 0, 5) with (2, 0)
C8_Witness ==
    /\ last.event = "UpdateCellPosition" /\ last.by = "SnapCellToGrid"
    /\ last.entity = "A" /\ last.outcome = "written"
    /\ last.translation = Vec3(70, 0, 5)
    /\ Grid["G"].cell_size = Vec2(32, 32) /\ Grid["G"].cell_gap = Vec2(2, 2)
    /\ Transform["G"] = Vec3(0, 0, 0)
    /\ GridCell["A"] = Vec2(U32(2), U32(0))
    /\ Transform["A"] = Vec3(68, 0, 5)

\* C9: a position sync that runs right after a position sync of the same cell
\* leaves the cell where the first one put it.
C9_SyncIdempotent ==
    ( /\ last.event = "UpdateCellPosition" /\ last.again
      /\ last.outcome = "written" )
    => Transform[last.entity] = last.translation

\* C9 witness: two position syncs of cell A have run in a row, with the grid
\* away from the origin on every axis
C9_Witness ==
    /\ last.event = "UpdateCellPosition" /\ last.again
    /\ last.outcome = "written" /\ last.entity = "A"
    /\ Transform["G"] = Vec3(10, -4, 7)

\* every command of the tick, the syncs Grid::on_changed issued among them, has
\* been applied
TickDone == applying /\ ~aborted /\ queue = <<>>

\* C11: once the syncs issued in a tick have all run, every cell Grid::on_changed
\* issued a sync for stands where a sync from its grid's present translation puts
\* it, however often the grid was moved before the syncs ran.
C11_SyncsReadLatestGridPosition ==
    TickDone =>
        \A g \in tick.seen : \A c \in RangeOf(AttachedCells[g]) :
            Resolves(c) =>
                Transform[c] =
                    synced_translation(Transform[AttachedToGrid[c]], Transform[c],
                        get_cell_position(Grid[AttachedToGrid[c]], GridCell[c]))

\* C11 witness: in the first tick the grid was moved before Grid::on_changed ran
\* and again after it, before the syncs ran; the syncs have all run (the last one
\* for the other grid's cell, never synced before) and cell A stands by the grid's
\* present translation
C11_Witness ==
    /\ TickDone /\ "G" \in tick.seen
    /\ tick.at["G"] # Vec3(0, 0, 0) /\ Transform["G"] # tick.at["G"]
    /\ moves = 2
    /\ last.event = "UpdateCellPosition" /\ last.by = "on_changed"
    /\ last.entity = "C" /\ last.outcome = "written"
    /\ last.translation = Vec3(3, 3, 9)
    /\ Transform["A"].x = F32(Transform["G"].x + get_cell_position(Grid["G"], GridCell["A"]).x)
    /\ Transform["A"].x # F32(tick.at["G"].x + get_cell_position(Grid["G"], GridCell["A"]).x)

\* the events Grid::on_changed adds to the queue
Issued == SubSeq(queue', Len(queue) + 1, Len(queue'))

\* the work pending in a queue: an event counts with the events its observer
\* may issue (a snap with its position sync)
RECURSIVE Pending(_)
Pending(q) ==
    IF q = <<>> THEN 0
    ELSE (IF Head(q).event = "UpdateCellPosition" THEN 1 ELSE 2) + Pending(Tail(q))

\* a position sync issues nothing and marks no target as changed, a snap issues
\* at most one position sync of its cell, and Grid::on_changed issues one position
\* sync for each attached cell of each changed target and nothing else
Nesting ==
    /\ Delivering("UpdateCellPosition") =>
          (queue' = Tail(queue) /\ changed' = changed)
    /\ (Delivering("SnapCellToGrid") \/ Delivering("TrySnapCellToGrid")) =>
          \/ queue' = queue
          \/ queue' = Tail(queue)
          \/ queue' = <<Event("UpdateCellPosition", Head(queue).entity,
                               Head(queue).event)>> \o Tail(queue)
    /\ (~applying /\ ran' /\ ~ran) =>
          /\ Issued = Flatten([i \in 1..Len(ChangedTargets) |->
                          [j \in 1..Len(AttachedCells[ChangedTargets[i]]) |->
                              Event("UpdateCellPosition",
                                    AttachedCells[ChangedTargets[i]][j], "on_changed")]])
          /\ SubSeq(queue', 1, Len(queue)) = queue

\* C12 (as claimed): nesting is bounded as above, and what is pending always
\* drains: while the commands are applied, an event is at the head of the queue
\* only until its observer has run, and every observer run leaves less pending
\* work than it found.
C12_PendingAlwaysDrains ==
    [][ /\ Nesting
        /\ (applying /\ queue # <<>>) =>
              (Head(queue).event \in EventNames /\ Pending(queue') < Pending(queue)) ]_vars

\* C12 (what holds): nesting is bounded as above, and unless an observer panics
\* every observer run leaves less pending work than it found.
C12_PendingDrainsUnlessAborted ==
    [][ /\ Nesting
        /\ (applying /\ queue # <<>>) =>
              /\ Head(queue).event \in EventNames
              /\ (Pending(queue') < Pending(queue) \/ aborted') ]_vars

\* C12 witness: in the first tick a snap changed cell A's coordinate, its position
\* sync and the syncs Grid::on_changed issued have run, and the queue is empty
C12_Witness ==
    /\ TickDone /\ tick.seen = {"G", "P", "H"}
    /\ last.event = "UpdateCellPosition" /\ last.entity = "C"
    /\ last.translation = Vec3(3, 3, 9)
    /\ GridCell["A"] # ZeroUVec2

Resnap(name, entity) == snapped = [entity |-> entity, name |-> name]

\* C14 (as claimed): a snap processed again for a cell, after the same snap and
\* its position sync completed and nothing changed in between, changes neither
\* the cell's coordinate nor its translation, and neither does the position sync
\* it issues.
C14_SnapIdempotent ==
    [][ /\ ( /\ applying /\ queue # <<>>
             /\ Head(queue).event \in Snaps
             /\ Resnap(Head(queue).event, Head(queue).entity) )
           => (GridCell' = GridCell /\ Transform' = Transform /\ ~aborted')
        /\ ( /\ Delivering("UpdateCellPosition")
             /\ Head(queue).by \in Snaps
             /\ Resnap(Head(queue).by, Head(queue).entity) )
           => (GridCell' = GridCell /\ Transform' = Transform) ]_vars

\* C14 (what holds): the same, for a cell whose grid translation + cell position
\* is exact in f32; and the translation is never changed by the repeated snap.
C14_SnapIdempotentWhereExact ==
    [][ /\ ( /\ applying /\ queue # <<>>
             /\ Head(queue).event \in Snaps
             /\ Resnap(Head(queue).event, Head(queue).entity) )
           => LET cell == Head(queue).entity
                  g == AttachedToGrid[cell]
                  off == get_cell_position(Grid[g], GridCell[cell])
              IN  /\ Transform' = Transform /\ ~aborted'
                  /\ (ExactSum(Transform[g].x, off.x) /\ ExactSum(Transform[g].y, off.y))
                        => GridCell' = GridCell
        /\ ( /\ Delivering("UpdateCellPosition")
             /\ Head(queue).by \in Snaps
             /\ Resnap(Head(queue).by, Head(queue).entity) )
           => (GridCell' = GridCell /\ Transform' = Transform) ]_vars

\* C14 witness: TrySnapCellToGrid has run for cell A a second time, with nothing
\* changed since it and its position sync completed, and has stored a coordinate
C14_Witness ==
    /\ Resnap("TrySnapCellToGrid", "A")
    /\ last.event = "TrySnapCellToGrid" /\ last.entity = "A"
    /\ last.outcome = "stored"
    /\ last.coordinate = GridCell["A"] /\ GridCell["A"] # ZeroUVec2

\* a step of the core: an observer, on_changed or the command flush, and not a
\* system outside the core writing a Transform
CoreStep == moves' = moves

\* C15: no operation of the core (position sync, either snap, the grid-moved
\* handler) changes the z of any cell's translation, whatever the grid's z is.
C15_CellZNeverChanged ==
    [][CoreStep => \A c \in DOMAIN GridCell : Transform'[c].z = Transform[c].z]_vars

\* C15 witness: a position sync issued for the moved grid at z = 7 has rewritten
\* the x and y of cell A, whose z is 5
C15_Witness ==
    /\ last.event = "UpdateCellPosition" /\ last.entity = "A"
    /\ last.by = "on_changed" /\ last.outcome = "written"
    /\ Transform["G"] = Vec3(10, -4, 7)
    /\ Transform["A"].x # last.translation.x
    /\ last.translation.z = 5
    /\ Transform["A"].z = 5 /\ Transform["A"].x = 10 + Grid["G"].offset.x

BeforeCoord(e) == moved.before[2][e]

\* C16: the grid-moved handler issues position syncs only for cells in the
\* attached set of a grid whose transform changed; once it and its syncs have run
\* for a moved grid, every cell outside that grid's attached set (attached to
\* another, unmoved grid, attached to a non-grid, or unattached) has its stored
\* coordinate and its translation unchanged; and no operation of the core changes
\* a grid's configuration or translation.
C16_GridMovesStayLocal ==
    [][ /\ (~applying /\ ran' /\ ~ran) =>
              \A i \in 1..Len(Issued) :
                  /\ Issued[i].event = "UpdateCellPosition"
                  /\ \E g \in changed \cap DOMAIN AttachedCells :
                         Issued[i].entity \in RangeOf(AttachedCells[g])
        /\ CoreStep => /\ Grid' = Grid
                       /\ \A g \in DOMAIN Grid : Transform'[g] = Transform[g]
        /\ GridMoveDone' =>
              \A c \in DOMAIN GridCell \ RangeOf(AttachedCells[moved'.grid]) :
                  /\ Transform'[c] = moved'.before[1][c]
                  /\ GridCell'[c] = moved'.before[2][c] ]_vars

\* C16 witness: grid G was moved and its cell A has followed, while cell C of the
\* unmoved grid H, the unattached cell O and cell S keep coordinate and translation
C16_Witness ==
    /\ GridMoveDone /\ moved.grid = "G"
    /\ Transform["G"] # Before("G") /\ Transform["A"] # Before("A")
    /\ Transform["H"] = Before("H")
    /\ \A c \in {"C", "O", "S"} : Transform[c] = Before(c) /\ GridCell[c] = BeforeCoord(c)
    /\ AttachedToGrid["C"] = "H" /\ "O" \notin DOMAIN AttachedToGrid

\* C17: processing UpdateCellPosition for a cell changes no stored coordinate and
\* no translation but that cell's; a snap observer changes no translation and no
\* stored coordinate but its target's; and no other operation of the core writes a
\* translation: position sync is the only one that does.
C17_SyncWritesOnlyTargetPosition ==
    [][ /\ Delivering("UpdateCellPosition") =>
              /\ GridCell' = GridCell
              /\ \A e \in DOMAIN Transform \ {Head(queue).entity} :
                     Transform'[e] = Transform[e]
        /\ (Delivering("SnapCellToGrid") \/ Delivering("TrySnapCellToGrid")) =>
              /\ Transform' = Transform
              /\ \A c \in DOMAIN GridCell \ {Head(queue).entity} :
                     GridCell'[c] = GridCell[c]
        /\ (CoreStep /\ ~Delivering("UpdateCellPosition")) => Transform' = Transform
      ]_vars

\* C17 witness: SnapCellToGrid has stored a new coordinate for cell A without
\* moving it, and the position sync it issued has then moved A and kept the
\* coordinate
C17_Witness ==
    /\ last.event = "UpdateCellPosition" /\ last.entity = "A"
    /\ last.by = "SnapCellToGrid" /\ last.outcome = "written"
    /\ last.translation = Vec3(70, 0, 5)
    /\ Transform["A"] # last.translation
    /\ GridCell["A"] = last.coordinate /\ GridCell["A"] # ZeroUVec2

\* what CLAMP derives from the inputs REJECT was given
ClampOfProbe ==
    get_cell_coordinate(probe.grid, probe.grid_translation, probe.cell_translation, TRUE)

\* a bound, where there is one, is below 2^31
BelowI32(dim) == dim.some => dim.v.top = 0

\* C18 (as claimed): for every grid, grid position and cell position, if REJECT
\* returns a coordinate c then CLAMP returns the same c.
C18_PoliciesAgree ==
    (Derived(FALSE) /\ probe.derived.tag = "Some") => ClampOfProbe = probe.derived

\* C18 (what holds): the same, for grids whose bounds are below 2^31.
C18_PoliciesAgreeBelowI32 ==
    ( /\ Derived(FALSE) /\ probe.derived.tag = "Some"
      /\ BelowI32(probe.grid.dimensions[1]) /\ BelowI32(probe.grid.dimensions[2]) )
        => ClampOfProbe = probe.derived

\* C18 witness: REJECT has accepted (2, 2) on a grid 3 wide and 3 high
C18_Witness ==
    /\ Derived(FALSE) /\ probe.from = "input"
    /\ probe.grid.dimensions = <<SomeU32(U32(3)), SomeU32(U32(3))>>
    /\ probe.derived = [tag |-> "Some", v |-> Vec2(U32(2), U32(2))]
    /\ ClampOfProbe = probe.derived

\* what REJECT derives from the probe's inputs
RejectOfProbe ==
    get_cell_coordinate(probe.grid, probe.grid_translation, probe.cell_translation, FALSE)

\* line 58-59: the local translation, and line 61: the spacing it is divided by
ProbeLocal ==
    Vec2(F32(F32(probe.cell_translation.x - probe.grid_translation.x) - probe.grid.offset.x),
         F32(F32(probe.cell_translation.y - probe.grid_translation.y) - probe.grid.offset.y))
ProbeSpacing ==
    Vec2(F32(probe.grid.cell_gap.x + probe.grid.cell_size.x),
         F32(probe.grid.cell_gap.y + probe.grid.cell_size.y))

\* raw is the integer nearest to local / s (s > 0), exact halves away from zero
NearestAwayFromZero(raw, local, s) ==
    \/ 2 * Abs(raw * s - local) < s
    \/ 2 * Abs(raw * s - local) = s /\ Abs(raw * s) > Abs(local)

\* the grid has an origin cell: no bound is 0
HasOrigin(dim) == dim.some => dim.v # U32(0)

\* the rounding rule on one axis: raw against local and s, and what the two
\* policies return for it
AxisRule(raw, local, s, clamped, rejected) ==
    /\ NearestAwayFromZero(raw, local, s)
    /\ (local > 0 /\ (2 * local) % s = 0 /\ ((2 * local) \div s) % 2 = 1)
          => raw = ((2 * local) \div s + 1) \div 2
    /\ (2 * local = -s) => (raw = -1 /\ clamped = U32(0) /\ rejected.tag = "None")
    /\ (-s < 2 * local /\ 2 * local < s)
          => /\ raw = 0 /\ clamped = U32(0)


RuleOnBothAxes ==
    /\ ClampOfProbe.tag = "Some"
    /\ AxisRule(ProbeRaw.x, ProbeLocal.x, ProbeSpacing.x, ClampOfProbe.v.x, RejectOfProbe)
    /\ AxisRule(ProbeRaw.y, ProbeLocal.y, ProbeSpacing.y, ClampOfProbe.v.y, RejectOfProbe)
    /\ RejectOfProbe.tag = "Some" =>
          RejectOfProbe.v = Vec2(U32(ProbeRaw.x), U32(ProbeRaw.y))
    /\ ( /\ -ProbeSpacing.x < 2 * ProbeLocal.x /\ 2 * ProbeLocal.x < ProbeSpacing.x
         /\ -ProbeSpacing.y < 2 * ProbeLocal.y /\ 2 * ProbeLocal.y < ProbeSpacing.y )
          => RejectOfProbe = SomeCoord(ZeroUVec2)

SmallLocal(local) == Abs(local) < 8388608

=============================================================================
